---- MODULE Spec2Model ----
(***************************************************************************)
(* Model of prefect.utilities.templating: the placeholder scanner          *)
(* (find_placeholders), the value resolver (apply_values) and the block    *)
(* document reference resolver (resolve_block_document_references).        *)
(*                                                                         *)
(* Python strings are sequences of one-character strings.  A template node *)
(* is a tagged record (None, bool, int, float, str, list, dict, NotSet); a  *)
(* dict is the sequence of its items in insertion order.                   *)
(***************************************************************************)
EXTENDS Integers, Sequences, FiniteSets, TLC

VARIABLES template, values, pc, found, result, second,
          stack, calls, inflight, ret, outcome

vars == <<template, values, pc, found, result, second,
          stack, calls, inflight, ret, outcome>>

applyVars == <<values, found, result, second>>
resolveVars == <<stack, calls, inflight, ret, outcome>>

(***************************************************************************)
(* Bounds of the model.                                                    *)
(***************************************************************************)
\* strings are concatenations of at most MaxParts text parts
MaxParts == 2
\* lists and dicts have at most MaxLen entries
MaxLen == 2
\* a block placeholder name carries at most MaxSegs segments after the prefix
MaxSegs == 3

(***************************************************************************)
(* Characters.                                                             *)
(***************************************************************************)
Lower ==
  {"a","b","c","d","e","f","g","h","i","j","k","l","m",
   "n","o","p","q","r","s","t","u","v","w","x","y","z"}

Upper ==
  {"A","B","C","D","E","F","G","H","I","J","K","L","M",
   "N","O","P","Q","R","S","T","U","V","W","X","Y","Z"}

Digits == {"0","1","2","3","4","5","6","7","8","9"}

\* \s of the regular expression
Whitespace == {" ", "\t", "\n", "\r"}

\* [\w\.-] of the regular expression
NameChars == Lower \cup Upper \cup Digits \cup {"_", ".", "-"}

BLOCK_DOCUMENT_PLACEHOLDER_PREFIX ==
  <<"p","r","e","f","e","c","t",".","b","l","o","c","k","s",".">>

STANDARD == "standard"
BLOCK_DOCUMENT == "block_document"

(***************************************************************************)
(* Template nodes.                                                         *)
(***************************************************************************)
NullV == [t |-> "null"]
NotSet == [t |-> "NotSet"]
BoolV(b) == [t |-> "bool", b |-> b]
IntV(n) == [t |-> "int", n |-> n]
\* a float with one decimal digit, held in tenths
FloatV(tenths) == [t |-> "float", tenths |-> tenths]
StrV(s) == [t |-> "str", s |-> s]
ListV(elems) == [t |-> "list", elems |-> elems]
DictV(items) == [t |-> "dict", items |-> items]
Item(k, v) == [k |-> k, v |-> v]

\* an exception raised by the code, with the line that raises it
Raise(kind, line) == [t |-> "raise", kind |-> kind, line |-> line]

Range(seq) == {seq[i] : i \in 1..Len(seq)}

(***************************************************************************)
(* Python str methods.                                                     *)
(***************************************************************************)
StartsWith(s, prefix) ==
  /\ Len(prefix) <= Len(s)
  /\ SubSeq(s, 1, Len(prefix)) = prefix

OccursAt(s, i, old) ==
  /\ i + Len(old) - 1 <= Len(s)
  /\ SubSeq(s, i, i + Len(old) - 1) = old

RECURSIVE ReplaceFrom(_, _, _, _)
ReplaceFrom(s, i, old, new) ==
  IF i > Len(s) THEN <<>>
  ELSE IF OccursAt(s, i, old)
       THEN new \o ReplaceFrom(s, i + Len(old), old, new)
       ELSE <<s[i]>> \o ReplaceFrom(s, i + 1, old, new)

\* s.replace(old, new), old not empty: every occurrence, left to right
Replace(s, old, new) == ReplaceFrom(s, 1, old, new)

RECURSIVE SplitFrom(_, _, _, _)
SplitFrom(s, i, sep, cur) ==
  IF i > Len(s) THEN <<cur>>
  ELSE IF s[i] = sep
       THEN <<cur>> \o SplitFrom(s, i + 1, sep, <<>>)
       ELSE SplitFrom(s, i + 1, sep, Append(cur, s[i]))

\* s.split(sep) for a one-character separator
Split(s, sep) == SplitFrom(s, 1, sep, <<>>)

RECURSIVE Join(_, _)
Join(parts, sep) ==
  IF Len(parts) = 0 THEN <<>>
  ELSE IF Len(parts) = 1 THEN parts[1]
       ELSE parts[1] \o sep \o Join(Tail(parts), sep)

DigitOf(d) ==
  CASE d = 0 -> "0" [] d = 1 -> "1" [] d = 2 -> "2" [] d = 3 -> "3"
    [] d = 4 -> "4" [] d = 5 -> "5" [] d = 6 -> "6" [] d = 7 -> "7"
    [] d = 8 -> "8" [] d = 9 -> "9"

RECURSIVE Decimal(_)
Decimal(n) ==
  IF n < 0 THEN <<"-">> \o Decimal(0 - n)
  ELSE IF n < 10 THEN <<DigitOf(n)>>
       ELSE Decimal(n \div 10) \o <<DigitOf(n % 10)>>

\* repr() of a node; strings of the model hold no quote or escape character
RECURSIVE PyRepr(_)
PyRepr(v) ==
  CASE v.t = "null" -> <<"N","o","n","e">>
    [] v.t = "bool" -> IF v.b THEN <<"T","r","u","e">> ELSE <<"F","a","l","s","e">>
    [] v.t = "int" -> Decimal(v.n)
    [] v.t = "float" -> Decimal(v.tenths \div 10) \o <<".">> \o Decimal(v.tenths % 10)
    [] v.t = "str" -> <<"'">> \o v.s \o <<"'">>
    [] v.t = "list" ->
         <<"[">> \o Join([i \in 1..Len(v.elems) |-> PyRepr(v.elems[i])], <<",", " ">>)
                 \o <<"]">>
    [] v.t = "dict" ->
         <<"{">> \o Join([i \in 1..Len(v.items) |->
                            <<"'">> \o v.items[i].k \o <<"'", ":", " ">>
                                    \o PyRepr(v.items[i].v)],
                         <<",", " ">>)
                 \o <<"}">>

\* str() of a node: a string renders as itself, everything else as its repr
PyStr(v) == IF v.t = "str" THEN v.s ELSE PyRepr(v)

\* bool() of a node
Truthy(v) ==
  CASE v.t = "null" -> FALSE
    [] v.t = "bool" -> v.b
    [] v.t = "int" -> v.n # 0
    [] v.t = "float" -> v.tenths # 0
    [] v.t = "str" -> Len(v.s) > 0
    [] v.t = "list" -> Len(v.elems) > 0
    [] v.t = "dict" -> Len(v.items) > 0
    [] OTHER -> TRUE

(***************************************************************************)
(* dict methods.                                                           *)
(***************************************************************************)
HasKey(items, key) == \E i \in 1..Len(items) : items[i].k = key

\* dict.get(key, default)
DictGet(items, key, default) ==
  IF HasKey(items, key)
  THEN items[CHOOSE i \in 1..Len(items) : items[i].k = key].v
  ELSE default

(***************************************************************************)
(* PLACEHOLDER_CAPTURE_REGEX and the scanner.                              *)
(***************************************************************************)
RECURSIVE SkipWhile(_, _, _)
\* the first index from i on whose character is not in class
SkipWhile(s, i, class) ==
  IF i <= Len(s) /\ s[i] \in class THEN SkipWhile(s, i + 1, class) ELSE i

NoMatch == [ok |-> FALSE]

\* the match of ({{\s*([\w\.-]+)\s*}}) that starts at index i, if there is one
MatchAt(s, i) ==
  IF ~(i + 1 <= Len(s) /\ s[i] = "{" /\ s[i + 1] = "{") THEN NoMatch
  ELSE LET n0 == SkipWhile(s, i + 2, Whitespace)
           n1 == SkipWhile(s, n0, NameChars)
           e0 == SkipWhile(s, n1, Whitespace)
       IN IF n1 > n0 /\ e0 + 1 <= Len(s) /\ s[e0] = "}" /\ s[e0 + 1] = "}"
          THEN [ok |-> TRUE, next |-> e0 + 2,
                full_match |-> SubSeq(s, i, e0 + 1),
                name |-> SubSeq(s, n0, n1 - 1)]
          ELSE NoMatch

RECURSIVE FindAllFrom(_, _)
FindAllFrom(s, i) ==
  IF i > Len(s) THEN <<>>
  ELSE LET m == MatchAt(s, i)
       IN IF m.ok THEN <<m>> \o FindAllFrom(s, m.next)
          ELSE FindAllFrom(s, i + 1)

\* PLACEHOLDER_CAPTURE_REGEX.findall(s): the matches, leftmost first, not overlapping
FindAll(s) == FindAllFrom(s, 1)

determine_placeholder_type(name) ==
  IF StartsWith(name, BLOCK_DOCUMENT_PLACEHOLDER_PREFIX)
  THEN BLOCK_DOCUMENT
  ELSE STANDARD

Placeholder(full_match, name, type) ==
  [full_match |-> full_match, name |-> name, type |-> type]

\* the str branch of find_placeholders
StrPlaceholders(s) ==
  {Placeholder(m.full_match, m.name, determine_placeholder_type(m.name)) :
     m \in Range(FindAll(s))}

Returned(set) == [ok |-> TRUE, set |-> set]
Raised(exc) == [ok |-> FALSE, exc |-> exc]

\* isinstance(template, (int, float, bool))
ScannedAsNumber(node) == node.t \in {"int", "float", "bool"}

\* set().union(*[...]) over the scans of the children; an exception of a child
\* leaves the call
UnionOf(scans) ==
  IF \E i \in 1..Len(scans) : ~scans[i].ok
  THEN scans[CHOOSE i \in 1..Len(scans) :
               /\ ~scans[i].ok
               /\ \A j \in 1..(i - 1) : scans[j].ok]
  ELSE Returned(UNION {scans[i].set : i \in 1..Len(scans)})

RECURSIVE find_placeholders(_)
find_placeholders(node) ==
  IF ScannedAsNumber(node) THEN Returned({})
  ELSE IF node.t = "str" THEN Returned(StrPlaceholders(node.s))
  ELSE IF node.t = "dict"
       THEN UnionOf([i \in 1..Len(node.items) |-> find_placeholders(node.items[i].v)])
  ELSE IF node.t = "list"
       THEN UnionOf([i \in 1..Len(node.elems) |-> find_placeholders(node.elems[i])])
  ELSE Raised(Raise("ValueError", 69))

(***************************************************************************)
(* apply_values.                                                           *)
(***************************************************************************)
\* isinstance(template, (int, float, bool, type(NotSet), type(None)))
PassedThrough(node) == node.t \in {"int", "float", "bool", "NotSet", "null"}

\* len(placeholders) == 1, the placeholder is the whole string and is STANDARD
IsExactStandard(placeholders, s) ==
  /\ Cardinality(placeholders) = 1
  /\ \A p \in placeholders : p.full_match = s /\ p.type = STANDARD

\* a faulty variant: str(values[name]) in place of the value
ExactReplaceStringified(vals, name) ==
  IF HasKey(vals, name) THEN StrV(PyStr(DictGet(vals, name, NotSet))) ELSE NotSet

\* values.get(name, NotSet)
ExactReplace(vals, name) == DictGet(vals, name, NotSet)

\* a faulty variant: without "name in values", a missing name renders as ""
SubstitutableAlsoMissing(p, vals) ==
  /\ DictGet(vals, p.name, StrV(<<>>)).t # "null"
  /\ p.type = STANDARD

\* name in values and values[name] is not None and the type is STANDARD
Substitutable(p, vals) ==
  /\ HasKey(vals, p.name)
  /\ DictGet(vals, p.name, NullV).t # "null"
  /\ p.type = STANDARD

\* template.replace(full_match, str(values.get(name, "")))
ReplaceOne(s, p, vals) ==
  Replace(s, p.full_match, PyStr(DictGet(vals, p.name, StrV(<<>>))))

\* The loop over the set of placeholders.  A set is iterated in an order the
\* program does not choose: order lists every placeholder once, and the loop
\* meets the placeholders of this string in that order.
RECURSIVE Interpolate(_, _, _, _)
Interpolate(s, placeholders, vals, order) ==
  IF Len(order) = 0 THEN s
  ELSE LET p == Head(order)
           s1 == IF p \in placeholders /\ Substitutable(p, vals)
                 THEN ReplaceOne(s, p, vals)
                 ELSE s
       IN Interpolate(s1, placeholders, vals, Tail(order))

\* the str branch of apply_values
ApplyStr(s, vals, order) ==
  LET placeholders == StrPlaceholders(s)
  IN IF placeholders = {} THEN StrV(s)
     ELSE IF IsExactStandard(placeholders, s)
          THEN ExactReplace(vals, (CHOOSE p \in placeholders : TRUE).name)
          ELSE StrV(Interpolate(s, placeholders, vals, order))

\* a faulty variant: NotSet is kept like any value
KeptAlways(updated_value) == TRUE

\* updated_value is not NotSet
Kept(updated_value) == updated_value.t # "NotSet"

RECURSIVE apply_values(_, _, _)
apply_values(node, vals, order) ==
  IF PassedThrough(node) THEN node
  ELSE IF node.t = "str" THEN ApplyStr(node.s, vals, order)
  ELSE IF node.t = "dict"
       THEN DictV(SelectSeq(
              [i \in 1..Len(node.items) |->
                 Item(node.items[i].k, apply_values(node.items[i].v, vals, order))],
              LAMBDA it : Kept(it.v)))
  ELSE IF node.t = "list"
       THEN ListV(SelectSeq(
              [i \in 1..Len(node.elems) |-> apply_values(node.elems[i], vals, order)],
              Kept))
  ELSE Raise("ValueError", 140)

(***************************************************************************)
(* Iteration orders of the placeholder sets of a call.                     *)
(***************************************************************************)
RECURSIVE StringsOf(_)
\* the strings at the str nodes of a tree
StringsOf(node) ==
  IF node.t = "str" THEN {node.s}
  ELSE IF node.t = "dict"
       THEN UNION {StringsOf(node.items[i].v) : i \in 1..Len(node.items)}
  ELSE IF node.t = "list"
       THEN UNION {StringsOf(node.elems[i]) : i \in 1..Len(node.elems)}
  ELSE {}

PlaceholdersOf(node) == UNION {StrPlaceholders(s) : s \in StringsOf(node)}

IterationOrders(S) ==
  {f \in [1..Cardinality(S) -> S] :
     \A i, j \in 1..Cardinality(S) : i # j => f[i] # f[j]}

Orders(node) == IterationOrders(PlaceholdersOf(node))

(***************************************************************************)
(* Inputs of the scanner and of the value resolver.                        *)
(***************************************************************************)
RECURSIVE Concats(_, _)
\* the concatenations of at most n parts
Concats(parts, n) ==
  IF n = 0 THEN {<<>>}
  ELSE LET shorter == Concats(parts, n - 1)
       IN shorter \cup {p \o q : p \in parts, q \in shorter}

OpenBraces == <<"{", "{">>
CloseBraces == <<"}", "}">>
NameA == <<"a">>
NameB == <<"b">>
NameM == <<"m">>
PlainPlaceholder(name) == OpenBraces \o name \o CloseBraces
SpacedPlaceholder(name) == OpenBraces \o <<" ">> \o name \o <<" ">> \o CloseBraces
BlockName(rest) == BLOCK_DOCUMENT_PLACEHOLDER_PREFIX \o rest
SlugDotName == <<"s", ".", "n">>

TextParts ==
  { <<"x">>, OpenBraces, CloseBraces, NameA,
    PlainPlaceholder(NameA), SpacedPlaceholder(NameA),
    PlainPlaceholder(NameB), PlainPlaceholder(NameM),
    SpacedPlaceholder(BlockName(SlugDotName)) }

Strings == Concats(TextParts, MaxParts)

Scalars == {NullV, BoolV(TRUE), IntV(5), FloatV(15)}

\* the entries the containers of the model are built from
Elems ==
  { NullV, IntV(5), NotSet,
    StrV(PlainPlaceholder(NameA)), StrV(PlainPlaceholder(NameM)),
    StrV(<<"x">> \o PlainPlaceholder(NameA)),
    StrV(PlainPlaceholder(NameA) \o PlainPlaceholder(NameB)) }

Keys == <<<<"k", "1">>, <<"k", "2">>, <<"k", "3">>, <<"k", "4">>>>

ListsOver(S) == UNION {{ListV(e) : e \in [1..n -> S]} : n \in 0..MaxLen}

DictsOver(S) ==
  UNION {{DictV([i \in 1..n |-> Item(Keys[i], e[i])]) : e \in [1..n -> S]} :
           n \in 0..MaxLen}

Flat == ListsOver(Elems) \cup DictsOver(Elems)

Nested ==
  {ListV(<<c>>) : c \in Flat} \cup {DictV(<<Item(Keys[1], c)>>) : c \in Flat}

Templates ==
  {StrV(s) : s \in Strings} \cup Scalars \cup {NotSet} \cup Flat \cup Nested

AValues ==
  { NullV, IntV(5), BoolV(TRUE), FloatV(15),
    StrV(PlainPlaceholder(NameB)), StrV(PlainPlaceholder(NameM)), StrV(OpenBraces),
    ListV(<<IntV(1)>>), DictV(<<Item(<<"k">>, StrV(PlainPlaceholder(NameB)))>>) }

BValues == {IntV(1), StrV(<<"y">>)}

CValues == {IntV(7)}

Optional(name, vs) == {<<>>} \cup {<<Item(name, v)>> : v \in vs}

\* the dicts of values: a, b and a name with the block document prefix, each optional
Contexts ==
  {a \o b \o c : a \in Optional(NameA, AValues), b \in Optional(NameB, BValues),
                 c \in Optional(BlockName(SlugDotName), CValues)}

(***************************************************************************)
(* The calls of the scanner and the value resolver.                        *)
(***************************************************************************)
Idle == [t |-> "idle"]

Init ==
  /\ template \in Templates
  /\ values \in Contexts
  /\ pc = "start"
  /\ found = Idle
  /\ result = Idle
  /\ second = Idle
  /\ stack = <<>>
  /\ calls = <<>>
  /\ inflight = {}
  /\ ret = Idle
  /\ outcome = Idle

\* find_placeholders(template)
Scan ==
  /\ pc = "start"
  /\ found' = find_placeholders(template)
  /\ pc' = "scanned"
  /\ UNCHANGED <<template, values, result, second, resolveVars>>

\* result = apply_values(template, values)
Apply ==
  /\ pc = "start"
  /\ \E order \in Orders(template) :
       result' = apply_values(template, values, order)
  /\ pc' = "applied"
  /\ UNCHANGED <<template, values, found, second, resolveVars>>

\* apply_values(result, values): a second pass over the output of the first
ApplyAgain ==
  /\ pc = "applied"
  /\ \E order \in Orders(result) :
       second' = apply_values(result, values, order)
  /\ pc' = "reapplied"
  /\ UNCHANGED <<template, values, found, result, resolveVars>>

Next == Scan \/ Apply \/ ApplyAgain

Spec == Init /\ [][Next]_vars

(***************************************************************************)
(* resolve_block_document_references: a coroutine.  Every activation of    *)
(* the function is a frame of the stack; the last frame is the running     *)
(* one.  An await of the client suspends the call until the API answers.   *)
(***************************************************************************)
RefKey == <<"$", "r", "e", "f">>

BlockDocumentIdKey ==
  <<"b","l","o","c","k","_","d","o","c","u","m","e","n","t","_","i","d">>

\* template.get("$ref", {}).get("block_document_id"): a "$ref" that is no dict
\* has no get
RefLookup(node) ==
  LET ref == DictGet(node.items, RefKey, DictV(<<>>))
  IN IF ref.t = "dict"
     THEN [ok |-> TRUE, v |-> DictGet(ref.items, BlockDocumentIdKey, NullV)]
     ELSE [ok |-> FALSE, exc |-> Raise("AttributeError", 174)]

\* any(placeholder.type is PlaceholderType.BLOCK_DOCUMENT ...)
HasBlockDocumentPlaceholder(placeholders) ==
  \E p \in placeholders : p.type = BLOCK_DOCUMENT

\* a faulty variant: without "full_match == template"
IsExactBlockDocumentAnywhere(placeholders, s) ==
  /\ Cardinality(placeholders) = 1
  /\ \A p \in placeholders : p.type = BLOCK_DOCUMENT

\* len(placeholders) == 1, the placeholder is the whole string and is BLOCK_DOCUMENT
IsExactBlockDocument(placeholders, s) ==
  /\ Cardinality(placeholders) = 1
  /\ \A p \in placeholders : p.full_match = s /\ p.type = BLOCK_DOCUMENT

\* name.replace(BLOCK_DOCUMENT_PLACEHOLDER_PREFIX, "").split(".")
SplitBlockName(name) ==
  Split(Replace(name, BLOCK_DOCUMENT_PLACEHOLDER_PREFIX, <<>>), ".")

\* the calls of the client; node is the template node the call is made for
ReadBlockDocument(id, node) ==
  [op |-> "read_block_document", block_document_id |-> id, node |-> node]

ReadBlockDocumentByName(name, slug, node) ==
  [op |-> "read_block_document_by_name", name |-> name,
   block_type_slug |-> slug, node |-> node]

Frame(node) == [node |-> node, at |-> "enter", i |-> 0, acc |-> <<>>]

Top == stack[Len(stack)]

Running == pc = "resolving" /\ Len(stack) > 0 /\ inflight = {}

Entering(type) == Running /\ Top.at = "enter" /\ Top.node.t = type

SetTop(frame) == SubSeq(stack, 1, Len(stack) - 1) \o <<frame>>

\* the running call returns value to the call that awaits it
Return(value) ==
  /\ ret' = value
  /\ IF Len(stack) = 1
     THEN /\ stack' = <<>>
          /\ pc' = "done"
          /\ outcome' = value
     ELSE LET caller == stack[Len(stack) - 1]
          IN /\ stack' = SubSeq(stack, 1, Len(stack) - 2)
                           \o <<[caller EXCEPT !.acc = Append(@, value), !.i = @ + 1]>>
             /\ pc' = pc
             /\ outcome' = outcome

\* an exception leaves every call of the stack
Fail(exc) ==
  /\ pc' = "failed"
  /\ outcome' = exc
  /\ UNCHANGED <<stack, ret>>

\* await client.<call>
Await(call) ==
  /\ calls' = Append(calls, call)
  /\ inflight' = inflight \cup {call}
  /\ stack' = SetTop([Top EXCEPT !.at = "await"])
  /\ UNCHANGED <<pc, ret, outcome>>

\* a dict with a "$ref" that holds a block_document_id: read the document
EnterReference ==
  /\ Entering("dict")
  /\ RefLookup(Top.node).ok
  /\ Truthy(RefLookup(Top.node).v)
  /\ Await(ReadBlockDocument(RefLookup(Top.node).v, Top.node))
  /\ UNCHANGED <<template, applyVars>>

\* a dict whose "$ref" is no dict
EnterBadReference ==
  /\ Entering("dict")
  /\ ~RefLookup(Top.node).ok
  /\ Fail(RefLookup(Top.node).exc)
  /\ UNCHANGED <<template, applyVars, calls, inflight>>

\* any other dict, and a list: resolve the children one after the other
EnterContainer ==
  /\ \/ Entering("dict") /\ RefLookup(Top.node).ok /\ ~Truthy(RefLookup(Top.node).v)
     \/ Entering("list")
  /\ stack' = SetTop([Top EXCEPT !.at = "iter", !.i = 1])
  /\ UNCHANGED <<template, applyVars, pc, calls, inflight, ret, outcome>>

Children(node) ==
  IF node.t = "dict" THEN [j \in 1..Len(node.items) |-> node.items[j].v]
  ELSE node.elems

\* a faulty variant: the children are resolved last to first
ChildAtReversed(node, i) == Children(node)[Len(Children(node)) + 1 - i]

\* the i-th child the loop resolves
ChildAt(node, i) == Children(node)[i]

\* await resolve_block_document_references(value)
Descend ==
  /\ Running
  /\ Top.at = "iter"
  /\ Top.i <= Len(Children(Top.node))
  /\ stack' = Append(stack, Frame(ChildAt(Top.node, Top.i)))
  /\ UNCHANGED <<template, applyVars, pc, calls, inflight, ret, outcome>>

\* updated_template / the list of the resolved items
Rebuilt(node, acc) ==
  IF node.t = "dict"
  THEN DictV([j \in 1..Len(node.items) |-> Item(node.items[j].k, acc[j])])
  ELSE ListV(acc)

Rebuild ==
  /\ Running
  /\ Top.at = "iter"
  /\ Top.i > Len(Children(Top.node))
  /\ Return(Rebuilt(Top.node, Top.acc))
  /\ UNCHANGED <<template, applyVars, calls, inflight>>

\* a string without a block document placeholder
EnterPlainString ==
  /\ Entering("str")
  /\ LET placeholders == StrPlaceholders(Top.node.s)
     IN /\ Cardinality(placeholders) = 0 \/ ~HasBlockDocumentPlaceholder(placeholders)
        /\ Return(Top.node)
  /\ UNCHANGED <<template, applyVars, calls, inflight>>

\* a string that is one block document placeholder
EnterBlockString ==
  /\ Entering("str")
  /\ LET placeholders == StrPlaceholders(Top.node.s)
     IN /\ HasBlockDocumentPlaceholder(placeholders)
        /\ IsExactBlockDocument(placeholders, Top.node.s)
        /\ LET parts == SplitBlockName((CHOOSE p \in placeholders : TRUE).name)
           IN \/ /\ Len(parts) = 2
                 /\ Await(ReadBlockDocumentByName(parts[2], parts[1], Top.node))
                 /\ UNCHANGED <<template, applyVars>>
              \/ /\ Len(parts) # 2
                 /\ Fail(Raise("ValueError", 201))
                 /\ UNCHANGED <<template, applyVars, calls, inflight>>

\* a string with a block document placeholder and something else
EnterMixedString ==
  /\ Entering("str")
  /\ LET placeholders == StrPlaceholders(Top.node.s)
     IN /\ HasBlockDocumentPlaceholder(placeholders)
        /\ ~IsExactBlockDocument(placeholders, Top.node.s)
        /\ Fail(Raise("ValueError", 211))
  /\ UNCHANGED <<template, applyVars, calls, inflight>>

\* return template, for everything else
EnterScalar ==
  /\ Running
  /\ Top.at = "enter"
  /\ Top.node.t \notin {"dict", "list", "str"}
  /\ Return(Top.node)
  /\ UNCHANGED <<template, applyVars, calls, inflight>>

\* the data of the documents the API may hold
Documents ==
  { DictV(<<Item(<<"k">>, IntV(1))>>),
    StrV(SpacedPlaceholder(BlockName(SlugDotName))) }

\* the API answers with a document: return block_document.data
ReceiveDocument ==
  /\ pc = "resolving"
  /\ \E call \in inflight, data \in Documents :
       /\ inflight' = inflight \ {call}
       /\ Return(data)
  /\ UNCHANGED <<template, applyVars, calls>>

\* the API has no such document: the client raises
ReceiveNotFound ==
  /\ pc = "resolving"
  /\ \E call \in inflight :
       /\ inflight' = inflight \ {call}
       /\ Fail(Raise("ObjectNotFound", IF call.op = "read_block_document" THEN 176 ELSE 206))
  /\ UNCHANGED <<template, applyVars, calls>>

(***************************************************************************)
(* Inputs of the reference resolver.                                       *)
(***************************************************************************)
NameSegments == {<<"s", ".">>, <<"n">>, <<".">>, BLOCK_DOCUMENT_PLACEHOLDER_PREFIX}

BlockStrings ==
  {SpacedPlaceholder(BlockName(rest)) : rest \in Concats(NameSegments, MaxSegs)}

ResolverParts ==
  { <<"x">>, PlainPlaceholder(NameA),
    SpacedPlaceholder(BlockName(SlugDotName)),
    PlainPlaceholder(BlockName(<<"n", ".", "s">>)) }

ResolverStrings == BlockStrings \cup Concats(ResolverParts, MaxParts)

Id1 == StrV(<<"i", "1">>)
Id2 == StrV(<<"i", "2">>)

ReferenceObject(id) == DictV(<<Item(RefKey, DictV(<<Item(BlockDocumentIdKey, id)>>))>>)

\* what a template may hold under "$ref"
RefValues ==
  { DictV(<<Item(BlockDocumentIdKey, Id1)>>),
    DictV(<<Item(BlockDocumentIdKey, StrV(<<>>))>>),
    DictV(<<Item(BlockDocumentIdKey, NullV)>>),
    DictV(<<>>),
    StrV(<<"i", "1">>), NullV, ListV(<<>>) }

BlockLeaf == StrV(SpacedPlaceholder(BlockName(SlugDotName)))

RefDicts ==
  UNION {{ DictV(<<Item(RefKey, r)>>),
           DictV(<<Item(RefKey, r), Item(Keys[1], BlockLeaf)>>),
           DictV(<<Item(Keys[1], BlockLeaf), Item(RefKey, r)>>) } : r \in RefValues}

ResolverElems ==
  { IntV(1), StrV(<<"x">>), BlockLeaf,
    StrV(<<"x">> \o SpacedPlaceholder(BlockName(SlugDotName))),
    StrV(SpacedPlaceholder(BlockName(<<"s">>))),
    ReferenceObject(Id1), ReferenceObject(Id2),
    DictV(<<Item(RefKey, StrV(<<"i", "1">>))>>) }

ResolverFlat == ListsOver(ResolverElems) \cup DictsOver(ResolverElems)

ResolverNested ==
  {ListV(<<c>>) : c \in ResolverFlat}
    \cup {DictV(<<Item(Keys[1], c)>>) : c \in ResolverFlat}

ResolverTemplates ==
  {StrV(s) : s \in ResolverStrings} \cup Scalars \cup RefDicts
    \cup ResolverFlat \cup ResolverNested

\* resolve_block_document_references(template, client) has been called
InitResolve ==
  /\ template \in ResolverTemplates
  /\ values = <<>>
  /\ pc = "resolving"
  /\ found = Idle
  /\ result = Idle
  /\ second = Idle
  /\ stack = <<Frame(template)>>
  /\ calls = <<>>
  /\ inflight = {}
  /\ ret = Idle
  /\ outcome = Idle

NextResolve ==
  \/ EnterReference
  \/ EnterBadReference
  \/ EnterContainer
  \/ Descend
  \/ Rebuild
  \/ EnterPlainString
  \/ EnterBlockString
  \/ EnterMixedString
  \/ EnterScalar
  \/ ReceiveDocument
  \/ ReceiveNotFound

SpecResolve == InitResolve /\ [][NextResolve]_vars

(***************************************************************************)
(* Properties of the value resolver and of the scanner, under Spec.        *)
(***************************************************************************)
\* the string is one match of the regular expression and nothing else
IsWholePlaceholder(s) ==
  /\ Len(FindAll(s)) = 1
  /\ FindAll(s)[1].full_match = s

IsWholeStandard(s) ==
  /\ IsWholePlaceholder(s)
  /\ ~StartsWith(FindAll(s)[1].name, BLOCK_DOCUMENT_PLACEHOLDER_PREFIX)

IsWholeBlock(s) ==
  /\ IsWholePlaceholder(s)
  /\ StartsWith(FindAll(s)[1].name, BLOCK_DOCUMENT_PLACEHOLDER_PREFIX)

\* the scanner finds exactly one placeholder in s: it is STANDARD and is all of s
ExactStandardCase(node) ==
  /\ node.t = "str"
  /\ find_placeholders(node).ok
  /\ Cardinality(find_placeholders(node).set) = 1
  /\ \A p \in find_placeholders(node).set : p.type = STANDARD /\ p.full_match = node.s

\* C1: a string that is exactly one STANDARD placeholder resolves to the value
\* of its name in values, of whatever type, and to NotSet when the name is no
\* key of values.
C1_ExactStandardReturnsTheValue ==
  (pc = "applied" /\ ExactStandardCase(template)) =>
    LET name == (CHOOSE p \in find_placeholders(template).set : TRUE).name
    IN /\ \A i \in 1..Len(values) : values[i].k = name => result = values[i].v
       /\ (\A i \in 1..Len(values) : values[i].k # name) => result = NotSet

C1_Witness ==
  /\ pc = "applied"
  /\ ExactStandardCase(template)
  /\ HasKey(values, NameA)
  /\ result.t = "list"

RECURSIVE SimultaneousFrom(_, _, _)
\* every match of the regular expression in s replaced at its place: by the
\* rendering of its value when it is STANDARD and its name has a value that is
\* not None, by itself otherwise
SimultaneousFrom(s, i, vals) ==
  IF i > Len(s) THEN <<>>
  ELSE LET m == MatchAt(s, i)
       IN IF ~m.ok THEN <<s[i]>> \o SimultaneousFrom(s, i + 1, vals)
          ELSE (IF /\ ~StartsWith(m.name, BLOCK_DOCUMENT_PLACEHOLDER_PREFIX)
                   /\ \E j \in 1..Len(vals) : vals[j].k = m.name /\ vals[j].v # NullV
                THEN PyStr(vals[CHOOSE j \in 1..Len(vals) : vals[j].k = m.name].v)
                ELSE m.full_match)
               \o SimultaneousFrom(s, m.next, vals)

\* C2: a string with placeholders that is not exactly one STANDARD placeholder
\* resolves to a string in which every STANDARD placeholder with a value that
\* is not None is replaced by the rendering of that value, and every other
\* placeholder is left as it is.
C2_MixedStringIsInterpolated ==
  (/\ pc = "applied"
   /\ template.t = "str"
   /\ Len(FindAll(template.s)) > 0
   /\ ~ExactStandardCase(template))
    => /\ result.t = "str"
       /\ result.s = SimultaneousFrom(template.s, 1, values)

RECURSIVE HoldsNotSet(_)
\* NotSet occurs in the node, at any depth
HoldsNotSet(node) ==
  \/ node.t = "NotSet"
  \/ node.t = "list" /\ \E i \in 1..Len(node.elems) : HoldsNotSet(node.elems[i])
  \/ node.t = "dict" /\ \E i \in 1..Len(node.items) : HoldsNotSet(node.items[i].v)

RECURSIVE Survivors(_, _)
\* the pairs <<key or index, resolved child>> whose resolved child is not NotSet
Survivors(pairs, i) ==
  IF i > Len(pairs) THEN <<>>
  ELSE IF pairs[i][2].t = "NotSet" THEN Survivors(pairs, i + 1)
       ELSE <<pairs[i]>> \o Survivors(pairs, i + 1)

\* C3: apply_values of a dict or a list holds exactly the resolved children
\* that are not NotSet, in their order, and NotSet at no depth.
C3_ContainersDropNotSet ==
  (pc = "applied" /\ template.t \in {"dict", "list"}) =>
    /\ ~HoldsNotSet(result)
    /\ \E order \in Orders(template) :
         IF template.t = "dict"
         THEN [i \in 1..Len(result.items) |-> <<result.items[i].k, result.items[i].v>>]
                = Survivors([i \in 1..Len(template.items) |->
                               <<template.items[i].k,
                                 apply_values(template.items[i].v, values, order)>>], 1)
         ELSE /\ result.t = "list"
              /\ [i \in 1..Len(result.elems) |-> <<0, result.elems[i]>>]
                   = Survivors([i \in 1..Len(template.elems) |->
                                  <<0, apply_values(template.elems[i], values, order)>>], 1)

C3_Witness ==
  /\ pc = "applied"
  /\ template.t = "dict"
  /\ Len(template.items) = 2
  /\ template.items[1].v.t = "str"
  /\ Len(result.items) = 1
  /\ result.items[1].k = template.items[2].k

RECURSIVE InGrammar(_)
\* None, bool, int, float, str, and the lists and dicts of these
InGrammar(node) ==
  \/ node.t \in {"null", "bool", "int", "float", "str"}
  \/ node.t = "list" /\ \A i \in 1..Len(node.elems) : InGrammar(node.elems[i])
  \/ node.t = "dict" /\ \A i \in 1..Len(node.items) : InGrammar(node.items[i].v)

\* C8: find_placeholders returns the empty set for an int, a float, a bool and
\* None, at the top and inside a tree, and raises only for a node that is none
\* of None, bool, int, float, str, list, dict.
C8_ScalarsScanEmpty ==
  pc = "scanned" =>
    /\ template.t \in {"int", "float", "bool", "null"} => found = Returned({})
    /\ InGrammar(template) => found.ok

NoPlaceholderOfAKey(node, vals) ==
  \A p \in PlaceholdersOf(node) : ~HasKey(vals, p.name)

\* C9 as stated: when the first pass leaves no placeholder whose name is a key
\* of values, a second pass returns the result of the first.
C9_SecondPassChangesNothing ==
  (pc = "reapplied" /\ NoPlaceholderOfAKey(result, values)) => second = result

\* C9 as amended: when the first pass leaves no placeholder whose name is a key
\* of values and no string that is exactly one STANDARD placeholder, a second
\* pass returns the result of the first.
C9_SecondPassChangesNothingAmended ==
  (/\ pc = "reapplied"
   /\ NoPlaceholderOfAKey(result, values)
   /\ \A s \in StringsOf(result) : ~IsWholeStandard(s))
    => second = result

C9_Witness ==
  /\ pc = "reapplied"
  /\ NoPlaceholderOfAKey(result, values)
  /\ \A s \in StringsOf(result) : ~IsWholeStandard(s)
  /\ PlaceholdersOf(result) # {}
  /\ result # template
  /\ second = result

\* C10: the string apply_values returns does not depend on the order in which
\* the set of placeholders is iterated.
C10_OrderOfIterationIsIrrelevant ==
  (pc = "applied" /\ template.t = "str") =>
    \A order \in Orders(template) : result = apply_values(template, values, order)

(***************************************************************************)
(* Properties of the reference resolver, under SpecResolve.                *)
(***************************************************************************)
\* a dict with a "$ref" that is a dict holding a block_document_id
IsReferenceObject(node) ==
  /\ node.t = "dict"
  /\ \E i \in 1..Len(node.items) :
       /\ node.items[i].k = RefKey
       /\ node.items[i].v.t = "dict"
       /\ \E j \in 1..Len(node.items[i].v.items) :
            /\ node.items[i].v.items[j].k = BlockDocumentIdKey
            /\ Truthy(node.items[i].v.items[j].v)

IdOf(node) ==
  LET ref == node.items[CHOOSE i \in 1..Len(node.items) : node.items[i].k = RefKey].v
  IN ref.items[CHOOSE j \in 1..Len(ref.items) : ref.items[j].k = BlockDocumentIdKey].v

\* C4: a dict that is a reference object makes one read_block_document call
\* and is replaced by the data of the document as it is; every other dict is
\* rebuilt with the same keys in the same order and the resolved values.
C4_ReferenceObjectsAndOtherDicts ==
  [][/\ (Entering("dict") /\ IsReferenceObject(Top.node)) =>
          /\ calls' = Append(calls, ReadBlockDocument(IdOf(Top.node), Top.node))
          /\ pc' = "resolving"
     /\ (Entering("dict") /\ ~IsReferenceObject(Top.node)) =>
          /\ calls' = calls
          /\ pc' = "resolving"
          /\ Len(stack') = Len(stack)
          /\ stack'[Len(stack)].at = "iter"
     /\ (Running /\ Top.at = "iter" /\ Top.node.t = "dict"
           /\ Top.i > Len(Top.node.items)) =>
          /\ ret'.t = "dict"
          /\ [j \in 1..Len(ret'.items) |-> ret'.items[j].k]
               = [j \in 1..Len(Top.node.items) |-> Top.node.items[j].k]
          /\ [j \in 1..Len(ret'.items) |-> ret'.items[j].v] = Top.acc
     /\ (pc = "resolving" /\ inflight # {} /\ pc' = "resolving"
           /\ Top.node.t = "dict") =>
          ret' \in Documents
    ]_vars

\* the name without its leading prefix
StripPrefix(name) ==
  SubSeq(name, Len(BLOCK_DOCUMENT_PLACEHOLDER_PREFIX) + 1, Len(name))

WellFormed(parts) ==
  /\ Len(parts) = 2
  /\ Len(parts[1]) > 0
  /\ Len(parts[2]) > 0

\* C5: a string that is exactly one block document placeholder fails, without
\* a call, when its name without the prefix does not split on "." into two
\* parts that are not empty, and otherwise makes the call
\* read_block_document_by_name(name = second part, block_type_slug = first part).
C5_BlockNameIsValidated ==
  [][(Entering("str") /\ IsWholeBlock(Top.node.s)) =>
       LET parts == Split(StripPrefix(FindAll(Top.node.s)[1].name), ".")
       IN IF WellFormed(parts)
          THEN /\ calls' = Append(calls,
                        ReadBlockDocumentByName(parts[2], parts[1], Top.node))
               /\ pc' = "resolving"
          ELSE /\ calls' = calls
               /\ inflight' = {}
               /\ pc' = "failed"
               /\ outcome' = Raise("ValueError", 201)
    ]_vars

HasBlockMatch(s) ==
  \E i \in 1..Len(FindAll(s)) :
    StartsWith(FindAll(s)[i].name, BLOCK_DOCUMENT_PLACEHOLDER_PREFIX)

\* C6: a string with a block document placeholder that is not exactly that one
\* placeholder fails with the invalid template error and makes no call; a
\* string without a block document placeholder is returned as it is, without
\* a call.
C6_MixedBlockStringsAreRejected ==
  [][/\ (Entering("str") /\ HasBlockMatch(Top.node.s) /\ ~IsWholeBlock(Top.node.s)) =>
          /\ pc' = "failed"
          /\ outcome' = Raise("ValueError", 211)
          /\ calls' = calls
          /\ inflight' = {}
     /\ (Entering("str") /\ ~HasBlockMatch(Top.node.s)) =>
          /\ ret' = Top.node
          /\ pc' \in {"resolving", "done"}
          /\ calls' = calls
          /\ inflight' = {}
    ]_vars

C6_Witness ==
  /\ pc = "failed"
  /\ outcome = Raise("ValueError", 211)
  /\ Len(stack) > 1
  /\ Top.node.t = "str"
  /\ HasBlockMatch(Top.node.s)
  /\ Len(FindAll(Top.node.s)) = 1
  /\ Len(calls) = 1

RECURSIVE Flatten(_)
Flatten(seqs) == IF Len(seqs) = 0 THEN <<>> ELSE Head(seqs) \o Flatten(Tail(seqs))

RECURSIVE ReferenceOccurrences(_)
\* the reference objects and the strings that are one block document
\* placeholder, in the order of the walk: the values of a dict in the order of
\* its keys, the items of a list in the order of their indexes; nothing below
\* a reference object
ReferenceOccurrences(node) ==
  IF IsReferenceObject(node) THEN <<node>>
  ELSE IF node.t = "dict"
       THEN Flatten([i \in 1..Len(node.items) |-> ReferenceOccurrences(node.items[i].v)])
  ELSE IF node.t = "list"
       THEN Flatten([i \in 1..Len(node.elems) |-> ReferenceOccurrences(node.elems[i])])
  ELSE IF node.t = "str" /\ IsWholeBlock(node.s) THEN <<node>>
  ELSE <<>>

IsPrefix(p, q) == Len(p) <= Len(q) /\ SubSeq(q, 1, Len(p)) = p

CalledFor == [i \in 1..Len(calls) |-> calls[i].node]

====
